---------------------------- MODULE Spec2Model ----------------------------
(***************************************************************************)
(* scripts/dump_user.py of python-idb: recovery of the license record that *)
(* IDA Pro stores in the "$ original user" netnode.                        *)
(*                                                                         *)
(*   is_encrypted     the zero-run heuristic                               *)
(*   decrypt          pow(enc, 0x13, HEXRAYS_PUBKEY) over 1024 bits         *)
(*   parse_user_data  the fixed-offset decoder of the 0x80-byte blob       *)
(*   get_userdata     fetch, (conditionally) decrypt, parse                *)
(*                                                                         *)
(* Python values are modelled as follows.  bytes: a sequence of 0..255,    *)
(* addressed by the 0-based offsets of the source through At.  str: the    *)
(* sequence of its Unicode code points.  An int that may exceed 31 bits:   *)
(* the sequence of its base-65536 limbs, least significant first.  A       *)
(* value whose Python type matters (the result of struct.unpack_from) is a *)
(* record [type, val].                                                     *)
(***************************************************************************)
EXTENDS Integers, Sequences, FiniteSets, TLC

(***************************************************************************)
(* Program constants.                                                      *)
(***************************************************************************)
\* line 23: b'\x00' * 4
ZeroRunLen == 4
\* line 23: >= 0x80
EncryptedFrom == 128
\* line 43: buf[:0x80]
CipherLen == 128
\* line 44: the exponent 0x13
PubExponent == 19
\* line 45: to_bytes(0x80, 'big')
PlainLen == 128
\* line 62: len(buf) != 0x80
UserBlobLen == 128
\* line 65: offset of the '<H' version field
VersionOffset == 3
\* line 69: offset of the '<III' timestamps
TimestampOffset == 17
\* line 70: offset of the six id bytes
IdOffset == 29
\* lines 71: offset of the name
NameOffset == 35
\* line 97: userdata[:0x80]
SliceLen == 128

\* line 26, most significant byte first
HEXRAYS_PUBKEY ==
  <<
     147, 175, 122, 142,  58, 110, 185,  61,  27,  77,  31, 183, 236,  41,  41, 157,
      43, 200, 243, 206,  95, 132, 191, 232, 142,  71, 221, 189, 213,  85,  12,  60,
     227, 210, 177, 106,  46,  47, 189,  15, 189, 145, 158, 128,  56, 187,   5, 117,
      46, 201,  45, 209,  73, 140, 178, 131, 170,   8, 122, 147,  24,  79,  29, 217,
     221,  93,  93, 247, 133, 115,  34, 223, 205, 112, 137,  15, 129,  75,  88,  68,
     128, 113, 187, 171, 176, 252, 138, 120, 104, 182,  46, 178, 156, 194, 102,  76,
     143, 230,  29, 251, 197, 219,  14, 232, 191, 110, 207,  11, 101,  37,   5,  20,
      87, 108,  67, 132,  88,  34,  17, 137, 110,  84, 120, 249,  92,  66, 253, 237
  >>

(***************************************************************************)
(* bytes: indexing, slicing, find.                                         *)
(***************************************************************************)
\* b'\x00' * n
Zeros(n) == SubSeq([i \in 1..n |-> 0], 1, n)

\* buf[off], off a 0-based offset
At(buf, off) == buf[off + 1]

\* a slice bound as Python resolves it: a negative bound counts from the
\* end, and the result is clamped to 0..len
SliceBound(len, i) ==
  LET j == IF i < 0 THEN i + len ELSE i
  IN IF j < 0 THEN 0 ELSE IF j > len THEN len ELSE j

\* buf[lo:hi]
Slice(buf, lo, hi) ==
  LET a == SliceBound(Len(buf), lo)
      b == SliceBound(Len(buf), hi)
  IN IF b <= a THEN <<>> ELSE SubSeq(buf, a + 1, b)

\* the offsets i >= start at which sub occurs in buf
Occurrences(buf, sub, start) ==
  {i \in start..(Len(buf) - Len(sub)) : \A j \in 1..Len(sub) : buf[i + j] = sub[j]}

\* buf.find(sub, start): the lowest such offset, -1 when there is none
Find(buf, sub, start) ==
  LET occ == Occurrences(buf, sub, start)
  IN IF occ = {} THEN -1 ELSE CHOOSE i \in occ : \A j \in occ : i <= j

(***************************************************************************)
(* is_encrypted                                                            *)
(***************************************************************************)
\* the comparison made strict
is_encrypted_strict(buf) == Find(buf, Zeros(ZeroRunLen), 0) > EncryptedFrom

\* any run counts, wherever it starts
is_encrypted_anywhere(buf) == Find(buf, Zeros(ZeroRunLen), 0) >= 0

is_encrypted(buf) == Find(buf, Zeros(ZeroRunLen), 0) >= EncryptedFrom

(***************************************************************************)
(* Integers of up to 1024 bits, as 64 limbs of 16 bits, least significant  *)
(* first.                                                                  *)
(***************************************************************************)
\* int.from_bytes(s, 'big'), s of even length
LimbsOfBE(s) ==
  SubSeq([k \in 1..(Len(s) \div 2) |->
            s[Len(s) - 2 * k + 1] * 256 + s[Len(s) - 2 * k + 2]], 1, Len(s) \div 2)

\* int.from_bytes(s, 'little'), s of even length
LimbsOfLE(s) ==
  SubSeq([k \in 1..(Len(s) \div 2) |-> s[2 * k] * 256 + s[2 * k - 1]], 1, Len(s) \div 2)

\* x.to_bytes(2 * Len(x), 'big')
BEOfLimbs(x) ==
  SubSeq([i \in 1..(2 * Len(x)) |->
            LET k == Len(x) - ((i - 1) \div 2)
            IN IF i % 2 = 1 THEN x[k] \div 256 ELSE x[k] % 256], 1, 2 * Len(x))

\* x.to_bytes(2 * Len(x), 'little')
LEOfLimbs(x) ==
  SubSeq([i \in 1..(2 * Len(x)) |->
            IF i % 2 = 1 THEN x[(i + 1) \div 2] % 256 ELSE x[i \div 2] \div 256],
         1, 2 * Len(x))

\* the modulus
NL == LimbsOfBE(HEXRAYS_PUBKEY)

KeyLimbs == Len(NL)

Zero == SubSeq([i \in 1..KeyLimbs |-> 0], 1, KeyLimbs)

One == SubSeq([i \in 1..KeyLimbs |-> IF i = 1 THEN 1 ELSE 0], 1, KeyLimbs)

\* x >= y, both of the same number of limbs
Geq(x, y) ==
  LET D == {k \in 1..Len(x) : x[k] # y[k]}
  IN IF D = {} THEN TRUE
     ELSE LET top == CHOOSE k \in D : \A j \in D : j <= k IN x[top] > y[top]

RECURSIVE MulSub(_, _, _, _, _, _, _)
\* limbs lo..hi of 256*r + a*d - q*n given the carry into limb lo, followed
\* by the carry out of limb hi
MulSub(r, a, d, q, lo, hi, carry) ==
  IF lo = hi
  THEN LET v == 256 * r[lo] + a[lo] * d - q * NL[lo] + carry
       IN <<v % 65536, v \div 65536>>
  ELSE LET mid == (lo + hi) \div 2
           L == MulSub(r, a, d, q, lo, mid, carry)
           R == MulSub(r, a, d, q, mid + 1, hi, L[Len(L)])
       IN SubSeq(L, 1, Len(L) - 1) \o R

\* x mod n for x < 2n
Mod(x) ==
  IF Geq(x, NL) THEN SubSeq(MulSub(Zero, x, 1, 1, 1, KeyLimbs, 0), 1, KeyLimbs) ELSE x

\* 256*r + a*d less a multiple of n: the quotient is estimated from the top
\* limbs and never exceeds the true one, so that the result stays in 0..2n-1
MulStep(r, a, d) ==
  LET q == (256 * r[KeyLimbs] + a[KeyLimbs] * d) \div (NL[KeyLimbs] + 1)
  IN SubSeq(MulSub(r, a, d, q, 1, KeyLimbs, 0), 1, KeyLimbs)

RECURSIVE Horner(_, _, _, _, _)
\* r with the bytes b[hi], ..., b[lo] of the multiplier folded in, most
\* significant first; each half is evaluated before the next is entered
Horner(r, a, b, hi, lo) ==
  IF hi = lo THEN MulStep(r, a, b[hi])
  ELSE LET mid == (lo + hi) \div 2
           m == Horner(r, a, b, hi, mid + 1)
       IN IF Len(m) = KeyLimbs THEN Horner(m, a, b, mid, lo) ELSE m

\* a * b mod n
ModMul(a, b) == Mod(Horner(Zero, a, LEOfLimbs(b), 2 * KeyLimbs, 1))

RECURSIVE ModPow(_, _)
\* pow(b, e, n), by squaring
ModPow(b, e) ==
  IF e = 0 THEN One
  ELSE IF e = 1 THEN Mod(b)
  ELSE LET h == ModPow(b, e \div 2)
       IN IF Len(h) # KeyLimbs THEN h
          ELSE LET s == ModMul(h, h)
               IN IF Len(s) = KeyLimbs /\ e % 2 = 1 THEN ModMul(s, b) ELSE s

(***************************************************************************)
(* decrypt                                                                 *)
(***************************************************************************)
\* the bytes read most significant first
from_bytes_big(s) == LimbsOfBE(Zeros(CipherLen - Len(s)) \o s)

\* int.from_bytes(s, 'little') for s of at most CipherLen bytes
from_bytes_little(s) == LimbsOfLE(s \o Zeros(CipherLen - Len(s)))

\* Python exceptions and returns, as the outcome of a call
Raise(exc) == [kind |-> "raise", exc |-> exc]

Return(v) == [kind |-> "return", value |-> v]

\* x.to_bytes(len, 'big') for x of KeyLimbs limbs: OverflowError when x does
\* not fit in len bytes
to_bytes_big(x, len) ==
  LET full == BEOfLimbs(x)
      drop == Len(full) - len
  IN IF drop <= 0 THEN Return(Zeros(-drop) \o full)
     ELSE IF \A i \in 1..drop : full[i] = 0 THEN Return(SubSeq(full, drop + 1, Len(full)))
     ELSE Raise("OverflowError")

decrypt(buf) ==
  LET enc == from_bytes_little(Slice(buf, 0, CipherLen))
  IN to_bytes_big(ModPow(enc, PubExponent), PlainLen)

(***************************************************************************)
(* struct.unpack_from                                                      *)
(***************************************************************************)
\* the result of unpack_from is a tuple, whatever the number of fields
PyTuple(items) == [type |-> "tuple", val |-> items]

PyInt(n) == [type |-> "int", val |-> n]

\* Python's ==: values of different types are unequal
PyEq(x, y) == x.type = y.type /\ x.val = y.val

\* the sizes of the format characters used: H (2), I (4), B (1)
FieldSize(c) == IF c = "H" THEN 2 ELSE IF c = "I" THEN 4 ELSE 1

RECURSIVE CalcSize(_)
\* struct.calcsize of a format without padding ('<', or bytes only)
CalcSize(fmt) == IF fmt = <<>> THEN 0 ELSE FieldSize(Head(fmt)) + CalcSize(Tail(fmt))

\* the bytes of the fields before the k-th
FieldStart(fmt, k) == CalcSize(SubSeq(fmt, 1, k - 1))

\* one little-endian field: B and H as a number, I (which may exceed 31
\* bits) as its two 16-bit limbs, least significant first
UnpackField(c, buf, off) ==
  IF c = "B" THEN At(buf, off)
  ELSE IF c = "H" THEN At(buf, off) + 256 * At(buf, off + 1)
  ELSE <<At(buf, off) + 256 * At(buf, off + 1),
         At(buf, off + 2) + 256 * At(buf, off + 3)>>

\* struct.unpack_from(fmt, buf, off): struct.error when the buffer is too short
unpack_from(fmt, buf, off) ==
  IF Len(buf) - off < CalcSize(fmt) THEN Raise("struct.error")
  ELSE Return(PyTuple(SubSeq([k \in 1..Len(fmt) |->
                                UnpackField(fmt[k], buf, off + FieldStart(fmt, k))],
                             1, Len(fmt))))

(***************************************************************************)
(* "%02X-%02X%02X-%02X%02X-%02X" % tuple                                     *)
(***************************************************************************)
\* the digits a..f in lowercase, as %02x prints them
HexDigitLower(d) == IF d < 10 THEN 48 + d ELSE 97 + (d - 10)

\* the code point of an uppercase hexadecimal digit
HexDigitUpper(d) == IF d < 10 THEN 48 + d ELSE 65 + (d - 10)

\* %02X of a byte: two digits, zero padded, uppercase
Format02X(n) == <<HexDigitUpper(n \div 16), HexDigitUpper(n % 16)>>

Dash == <<45>>

FormatId(t) ==
  Format02X(t[1]) \o Dash \o Format02X(t[2]) \o Format02X(t[3]) \o Dash
    \o Format02X(t[4]) \o Format02X(t[5]) \o Dash \o Format02X(t[6])

(***************************************************************************)
(* bytes.decode('utf-8'), errors='strict'                                  *)
(***************************************************************************)
IsContinuation(b) == b >= 128 /\ b <= 191

\* the length of the sequence a lead byte announces, 0 for a byte that
\* cannot start one (a continuation byte, C0, C1, F5..FF)
SeqLen(b) ==
  IF b < 128 THEN 1
  ELSE IF b >= 194 /\ b <= 223 THEN 2
  ELSE IF b >= 224 /\ b <= 239 THEN 3
  ELSE IF b >= 240 /\ b <= 244 THEN 4
  ELSE 0

\* the range of the second byte: E0, ED, F0 and F4 narrow it (no overlong
\* forms, no surrogates, nothing above U+10FFFF)
SecondLow(b) == IF b = 224 THEN 160 ELSE IF b = 240 THEN 144 ELSE 128

SecondHigh(b) == IF b = 237 THEN 159 ELSE IF b = 244 THEN 143 ELSE 191

\* a well-formed sequence starts at position i of s
WellFormedAt(s, i) ==
  LET n == SeqLen(s[i])
  IN /\ n > 0
     /\ i + n - 1 <= Len(s)
     /\ n >= 2 => (s[i + 1] >= SecondLow(s[i]) /\ s[i + 1] <= SecondHigh(s[i]))
     /\ \A j \in (i + 2)..(i + n - 1) : IsContinuation(s[j])

\* position j of s, a continuation byte, belongs to the sequence that
\* starts at the nearest preceding byte that is not one
Covered(s, j) ==
  \E i \in (j - 3)..(j - 1) :
    /\ i >= 1
    /\ ~IsContinuation(s[i])
    /\ \A k \in (i + 1)..(j - 1) : IsContinuation(s[k])
    /\ i + SeqLen(s[i]) - 1 >= j

\* s decodes: every byte starts a well-formed sequence or continues one
ValidUtf8(s) ==
  \A i \in 1..Len(s) : IF IsContinuation(s[i]) THEN Covered(s, i) ELSE WellFormedAt(s, i)

\* the code point of the sequence starting at position i
CodePointAt(s, i) ==
  LET n == SeqLen(s[i])
  IN IF n = 1 THEN s[i]
     ELSE IF n = 2 THEN (s[i] % 32) * 64 + (s[i + 1] % 64)
     ELSE IF n = 3 THEN (s[i] % 16) * 4096 + (s[i + 1] % 64) * 64 + (s[i + 2] % 64)
     ELSE (s[i] % 8) * 262144 + (s[i + 1] % 64) * 4096 + (s[i + 2] % 64) * 64 + (s[i + 3] % 64)

\* s.decode('utf-8')
decode_utf8(s) ==
  IF ~ValidUtf8(s) THEN Raise("UnicodeDecodeError")
  ELSE LET starts == SelectSeq([i \in 1..Len(s) |-> IF IsContinuation(s[i]) THEN 0 ELSE i],
                               LAMBDA i : i > 0)
       IN Return(SubSeq([k \in 1..Len(starts) |-> CodePointAt(s, starts[k])], 1, Len(starts)))

(***************************************************************************)
(* datetime.datetime.utcfromtimestamp                                      *)
(***************************************************************************)
\* days and second of the day of a 32-bit count of seconds given as limbs
\* <<lo, hi>>: 86400 = 128 * 675, and t \div 128 fits in 31 bits
DaysOf(t) == (t[2] * 512 + (t[1] \div 128)) \div 675

SecondOfDay(t) == ((t[2] * 512 + (t[1] \div 128)) % 675) * 128 + (t[1] % 128)

\* the proleptic Gregorian date of a day count from 1970-01-01
CivilFromDays(days) ==
  LET z == days + 719468
      era == z \div 146097
      doe == z - era * 146097
      yoe == (doe - (doe \div 1460) + (doe \div 36524) - (doe \div 146096)) \div 365
      doy == doe - (365 * yoe + (yoe \div 4) - (yoe \div 100))
      mp == (5 * doy + 2) \div 153
      d == doy - ((153 * mp + 2) \div 5) + 1
      m == IF mp < 10 THEN mp + 3 ELSE mp - 9
      y == yoe + era * 400 + (IF m <= 2 THEN 1 ELSE 0)
  IN <<y, m, d>>

utcfromtimestamp(t) ==
  LET ymd == CivilFromDays(DaysOf(t))
      sod == SecondOfDay(t)
  IN [year |-> ymd[1], month |-> ymd[2], day |-> ymd[3],
      hour |-> sod \div 3600, minute |-> (sod % 3600) \div 60, second |-> sod % 60]

(***************************************************************************)
(* parse_user_data                                                         *)
(***************************************************************************)
\* only a buffer that is too short is refused
TooShort(buf) == Len(buf) < UserBlobLen

\* line 62
BadLength(buf) == Len(buf) # UserBlobLen

\* line 65
ReadVersion(buf) == unpack_from(<<"H">>, buf, VersionOffset)

\* line 66: version is the tuple unpack_from returned
VersionIsZero(version) == PyEq(version, PyInt(0))

\* the three fields read one field late
ReadTimestampsLate(buf) == unpack_from(<<"I", "I", "I">>, buf, TimestampOffset + 4)

\* line 69
ReadTimestamps(buf) == unpack_from(<<"I", "I", "I">>, buf, TimestampOffset)

\* line 70
ReadId(buf) == unpack_from(<<"B", "B", "B", "B", "B", "B">>, buf, IdOffset)

\* the terminator searched from the start of the buffer
NameBytesFromStart(buf) == Slice(buf, NameOffset, Find(buf, Zeros(1), 0))

\* line 71: the slice; find returns -1 when there is no zero byte
NameBytes(buf) == Slice(buf, NameOffset, Find(buf, Zeros(1), NameOffset))

parse_user_data(buf) ==
  IF BadLength(buf) THEN Raise("ValueError")
  ELSE LET version == ReadVersion(buf)
       IN IF version.kind = "raise" THEN version
          ELSE IF VersionIsZero(version.value) THEN Raise("NotImplementedError")
          ELSE LET ts == ReadTimestamps(buf)
                   idb == ReadId(buf)
               IN IF ts.kind = "raise" THEN ts
                  ELSE IF idb.kind = "raise" THEN idb
                  ELSE LET name == decode_utf8(NameBytes(buf))
                       IN IF name.kind = "raise" THEN name
                          ELSE Return([ts1 |-> utcfromtimestamp(ts.value.val[1]),
                                       ts2 |-> utcfromtimestamp(ts.value.val[3]),
                                       id |-> FormatId(idb.value.val),
                                       name |-> name.value])

(***************************************************************************)
(* get_userdata                                                            *)
(***************************************************************************)
\* the buffer passed on whole
SliceNone(userdata_) == userdata_

\* line 97
SlicePlain(userdata_) == Slice(userdata_, 0, SliceLen)

(***************************************************************************)
(* The buffers the functions are called with.                              *)
(***************************************************************************)
\* bytes beyond 0x80 in the longest raw buffer
MaxTail == 6
\* the longest of the short buffers
MaxShort == 5
\* the longest generated ASCII name
MaxNameLen == 3

Fill(n, b) == SubSeq([i \in 1..n |-> b], 1, n)

\* buf with the bytes at offsets off, off+1, ... replaced
Patch(buf, off, bytes) ==
  SubSeq([i \in 1..Len(buf) |->
            IF i > off /\ i <= off + Len(bytes) THEN bytes[i - off] ELSE buf[i]], 1, Len(buf))

\* buffers of one filler byte with one run of zero bytes, around the
\* offset that the heuristic tests
RunLengths == (ZeroRunLen - 1)..(ZeroRunLen + 1)

RunStarts == {0, 1} \cup ((EncryptedFrom - ZeroRunLen - 1)..(EncryptedFrom + MaxTail))

BufferLengths == (0..MaxShort) \cup ((EncryptedFrom - ZeroRunLen)..(EncryptedFrom + MaxTail))

Fillers == {1, 255}

PlainFill == {Fill(n, f) : n \in BufferLengths, f \in Fillers}

OneRun ==
  {Patch(Fill(n, f), z, Zeros(k)) :
     <<n, f, z, k>> \in {t \in BufferLengths \X Fillers \X RunStarts \X RunLengths :
                           t[3] + t[4] <= t[1]}}

\* an early run and a late one
TwoRuns ==
  {Patch(Patch(Fill(EncryptedFrom + MaxTail, f), z, Zeros(ZeroRunLen)),
         EncryptedFrom + MaxTail - ZeroRunLen, Zeros(ZeroRunLen)) :
     <<f, z>> \in Fillers \X {0, EncryptedFrom - ZeroRunLen - 1, EncryptedFrom - 1}}

RunBuffers == PlainFill \cup OneRun \cup TwoRuns

\* a 0x80-byte record: pre fills the bytes no field covers, post the bytes
\* after the name
Record(pre, ver, ts1, rsv, ts2, idb, name, post) ==
  Fill(VersionOffset, pre) \o ver \o Fill(TimestampOffset - VersionOffset - 2, pre)
    \o ts1 \o rsv \o ts2 \o idb \o name \o Fill(UserBlobLen - NameOffset - Len(name), post)

Versions == {<<0, 0>>, <<1, 0>>, <<0, 1>>}

\* 0, 1, 86399, 86400, 2000-02-29, 2^31-1, 2^31, 2100-03-01, 2^32-1
SpecialTimes ==
  {<<0, 0, 0, 0>>, <<1, 0, 0, 0>>, <<127, 81, 1, 0>>, <<128, 81, 1, 0>>, <<0, 12, 187, 56>>,
   <<255, 255, 255, 127>>, <<0, 0, 0, 128>>, <<128, 31, 212, 244>>, <<255, 255, 255, 255>>}

Times == SpecialTimes \cup ({0, 127, 128, 255} \X {0, 127, 128, 255} \X {0, 127, 128, 255} \X {0, 127, 128, 255})

FewTimes == {<<0, 0, 0, 0>>, <<0, 12, 187, 56>>, <<255, 255, 255, 255>>}

TimePairs == (Times \X FewTimes) \cup (FewTimes \X Times)

Reserved == {<<0, 0, 0, 0>>, <<255, 255, 255, 255>>, <<1, 2, 3, 4>>}

\* AB CD EF 01 23 45, and a sweep over the byte values
FewIds == {<<171, 205, 239, 1, 35, 69>>, <<0, 0, 0, 0, 0, 0>>, <<255, 255, 255, 255, 255, 255>>}

Ids == FewIds \cup {SubSeq([k \in 1..6 |-> (b + 37 * k) % 256], 1, 6) : b \in 0..255}

\* "ACME CORP"
AcmeCorp == <<65, 67, 77, 69, 32, 67, 79, 82, 80>>

\* well-formed UTF-8: U+00E9, U+20AC, U+1F600, the first and last of the
\* three- and four-byte ranges, the last before the surrogates
WellFormedNames ==
  {AcmeCorp, <<195, 169>>, <<226, 130, 172>>, <<240, 159, 152, 128>>, <<65, 195, 169, 66>>,
   <<224, 160, 128>>, <<237, 159, 191>>, <<239, 191, 191>>, <<240, 144, 128, 128>>,
   <<244, 143, 191, 191>>, <<194, 128>>, <<223, 191>>}

\* ill-formed: FF, overlong forms, a surrogate, truncated sequences, a lone
\* continuation byte, a code point above U+10FFFF
IllFormedNames ==
  {<<255>>, <<192, 128>>, <<193, 191>>, <<237, 160, 128>>, <<226, 130>>, <<195>>, <<128>>,
   <<244, 144, 128, 128>>, <<224, 159, 191>>, <<240, 143, 191, 191>>, <<245, 128, 128, 128>>,
   <<65, 128>>, <<195, 169, 169>>, <<226, 65, 172>>}

AsciiNames == {Fill(k, 65) : k \in 0..MaxNameLen}

\* names that fill the region up to its last byte, and all of it
LongNames == {Fill(UserBlobLen - NameOffset - 1, 65), Fill(UserBlobLen - NameOffset, 65)}

Names == AsciiNames \cup WellFormedNames \cup IllFormedNames \cup LongNames

\* a name, with or without its terminator
NameFields == Names \cup {IF Len(n) < UserBlobLen - NameOffset THEN n \o <<0>> ELSE n : n \in Names}

TimeRecords ==
  {Record(65, <<1, 0>>, tp[1], <<255, 255, 255, 255>>, tp[2], <<171, 205, 239, 1, 35, 69>>,
          AcmeCorp, 0) : tp \in TimePairs}

FieldRecords ==
  {Record(t[1], t[2], <<0, 12, 187, 56>>, t[3], <<1, 0, 0, 0>>, t[4], AcmeCorp, 0) :
     t \in {0, 65} \X Versions \X Reserved \X FewIds}

IdRecords ==
  {Record(65, <<1, 0>>, <<0, 12, 187, 56>>, <<0, 0, 0, 0>>, <<1, 0, 0, 0>>, i, AcmeCorp, 0) :
     i \in Ids}

NameRecords ==
  {Record(t[1], t[2], <<0, 12, 187, 56>>, <<0, 0, 0, 0>>, <<0, 0, 0, 0>>,
          <<171, 205, 239, 1, 35, 69>>, t[3], t[4]) :
     t \in {0, 65} \X Versions \X NameFields \X {0, 66, 255}}

Records == TimeRecords \cup FieldRecords \cup IdRecords \cup NameRecords

\* records followed by more bytes, as the store may return them
LongRecords ==
  {r \o Fill(k, b) :
     <<r, k, b>> \in {Record(t[1], <<1, 0>>, <<0, 12, 187, 56>>, <<1, 2, 3, 4>>, <<1, 0, 0, 0>>,
                             <<171, 205, 239, 1, 35, 69>>, t[2], t[3]) :
                        t \in {0, 65} \X {AcmeCorp \o <<0>>, AcmeCorp} \X {0, 66}}
                     \X (1..MaxTail) \X {0, 67}}

\* ciphertexts: 0, 1, 2, 3, n-1, n, n+1 (n is odd), 2^1024-1, and fillers
Ciphertexts ==
  {Zeros(CipherLen), Fill(CipherLen, 1), Fill(CipherLen, 255), LEOfLimbs(NL),
   Patch(LEOfLimbs(NL), 0, <<At(LEOfLimbs(NL), 0) - 1>>),
   Patch(LEOfLimbs(NL), 0, <<At(LEOfLimbs(NL), 0) + 1>>)}
    \cup {Patch(Zeros(CipherLen), 0, <<c>>) : c \in 1..3}

DecryptBuffers ==
  Ciphertexts
    \cup {c \o Fill(k, b) : <<c, k, b>> \in {Fill(CipherLen, 1), Patch(Zeros(CipherLen), 0, <<2>>)}
                                            \X (1..MaxTail) \X {0, 67}}
    \cup {<<>>, <<2>>, Fill(CipherLen - 1, 255)}

Calls ==
  ({"is_encrypted"} \X (RunBuffers \cup NameRecords \cup LongRecords))
    \cup ({"decrypt"} \X DecryptBuffers)
    \cup ({"parse_user_data"} \X (Records \cup RunBuffers \cup LongRecords))
    \cup ({"get_userdata"} \X (Records \cup RunBuffers \cup LongRecords))

(***************************************************************************)
(* The state machine: one call of one of the four functions.               *)
(***************************************************************************)
VARIABLES
  call,      \* the function called
  arg,       \* its argument; for get_userdata, what netnode.supval(0x0) returns
  pc,        \* the statement reached
  userdata,  \* get_userdata's local
  ret        \* the outcome of the call

vars == <<call, arg, pc, userdata, ret>>

Init ==
  \E c \in Calls :
    /\ call = c[1]
    /\ arg = c[2]
    /\ pc = "start"
    /\ userdata = <<>>
    /\ ret = [kind |-> "none"]

CallIsEncrypted ==
  /\ pc = "start" /\ call = "is_encrypted"
  /\ ret' = Return(is_encrypted(arg))
  /\ pc' = "done"
  /\ UNCHANGED <<call, arg, userdata>>

CallDecrypt ==
  /\ pc = "start" /\ call = "decrypt"
  /\ ret' = decrypt(arg)
  /\ pc' = "done"
  /\ UNCHANGED <<call, arg, userdata>>

CallParseUserData ==
  /\ pc = "start" /\ call = "parse_user_data"
  /\ ret' = parse_user_data(arg)
  /\ pc' = "done"
  /\ UNCHANGED <<call, arg, userdata>>

\* line 92
GetUserdataFetch ==
  /\ pc = "start" /\ call = "get_userdata"
  /\ userdata' = arg
  /\ pc' = "test"
  /\ UNCHANGED <<call, arg, ret>>

\* line 94
GetUserdataTest ==
  /\ pc = "test"
  /\ pc' = IF is_encrypted(userdata) THEN "decrypt" ELSE "slice"
  /\ UNCHANGED <<call, arg, userdata, ret>>

\* line 95
GetUserdataDecrypt ==
  /\ pc = "decrypt"
  /\ LET dec == decrypt(userdata)
     IN IF dec.kind = "raise"
        THEN ret' = dec /\ pc' = "done" /\ UNCHANGED userdata
        ELSE userdata' = dec.value /\ pc' = "parse" /\ UNCHANGED ret
  /\ UNCHANGED <<call, arg>>

\* line 97
GetUserdataSlice ==
  /\ pc = "slice"
  /\ userdata' = SlicePlain(userdata)
  /\ pc' = "parse"
  /\ UNCHANGED <<call, arg, ret>>

\* line 99
GetUserdataParse ==
  /\ pc = "parse"
  /\ ret' = parse_user_data(userdata)
  /\ pc' = "done"
  /\ UNCHANGED <<call, arg, userdata>>

Next ==
  \/ CallIsEncrypted
  \/ CallDecrypt
  \/ CallParseUserData
  \/ GetUserdataFetch
  \/ GetUserdataTest
  \/ GetUserdataDecrypt
  \/ GetUserdataSlice
  \/ GetUserdataParse

Spec == Init /\ [][Next]_vars

(***************************************************************************)
(* Properties.                                                             *)
(***************************************************************************)
Done(f) == call = f /\ pc = "done"

\* the 16-bit little-endian number at offset off
U16At(buf, off) == At(buf, off) + 256 * At(buf, off + 1)

\* the 32-bit little-endian number at offset off, as limbs <<lo, hi>>
U32At(buf, off) == <<U16At(buf, off), U16At(buf, off + 2)>>

\* a zero byte at or after offset 0x23
HasTerminator(buf) == \E o \in 35..(Len(buf) - 1) : At(buf, o) = 0

\* C1: a 128-byte buffer whose 16-bit field at offset 0x03 is 0 is rejected
\* with the version-unsupported error (NotImplementedError), whatever the
\* other bytes are.
C1_VersionZeroRejected ==
  (Done("parse_user_data") /\ Len(arg) = 128 /\ U16At(arg, 3) = 0)
    => ret = Raise("NotImplementedError")

\* C2: a 128-byte buffer with a non-zero version and no zero byte at
\* offsets 0x23..0x7F is rejected with the malformed-name error; no record,
\* and so no name cut from the unterminated region, is returned.
C2_MissingTerminatorRejected ==
  (Done("parse_user_data") /\ Len(arg) = 128 /\ U16At(arg, 3) # 0 /\ ~HasTerminator(arg))
    => ret = Raise("MalformedNameError")

\* four consecutive zero bytes start at offset i
ZeroRunAt(buf, i) == i + 4 <= Len(buf) /\ \A j \in 0..3 : At(buf, i + j) = 0

\* C3: is_encrypted never fails, and answers true exactly when the buffer
\* holds a run of four zero bytes and the earliest one starts at 0x80 or
\* later.
C3_IsEncryptedExact ==
  Done("is_encrypted")
    => /\ ret.kind = "return"
       /\ ret.value \in BOOLEAN
       /\ ret.value <=> /\ \E i \in 128..Len(arg) : ZeroRunAt(arg, i)
                        /\ \A i \in 0..127 : ~ZeroRunAt(arg, i)

\* the earliest run starts exactly at 0x80, and the answer is true
C3_Witness == Done("is_encrypted") /\ ret = Return(TRUE) /\ ZeroRunAt(arg, 128)

\* C4: a buffer whose length is not 128 is rejected with the length error
\* (ValueError), and a record is returned only for a buffer of length 128.
C4_LengthChecked ==
  Done("parse_user_data")
    => /\ Len(arg) # 128 => ret = Raise("ValueError")
       /\ ret.kind = "return" => Len(arg) = 128

\* a buffer longer than 128 bytes, otherwise a well-formed record, is rejected
C4_Witness ==
  /\ Done("parse_user_data") /\ Len(arg) > 128 /\ ret = Raise("ValueError")
  /\ parse_user_data(SubSeq(arg, 1, 128)).kind = "return"

RECURSIVE PowerByProducts(_, _)
\* c^k mod n as k-1 successive products
PowerByProducts(c, k) ==
  IF k = 1 THEN Mod(c)
  ELSE LET p == PowerByProducts(c, k - 1)
       IN IF Len(p) = Len(c) THEN ModMul(p, c) ELSE p

\* C5: for a buffer of at least 128 bytes decrypt returns 128 bytes, the
\* big-endian encoding of c^0x13 mod n, a number below n, where c is the
\* little-endian number in the first 128 bytes; later bytes play no part.
C5_DecryptIsModExp ==
  (Done("decrypt") /\ Len(arg) >= 128)
    => /\ ret.kind = "return"
       /\ Len(ret.value) = 128
       /\ \A i \in 1..128 : ret.value[i] \in 0..255
       /\ ~Geq(LimbsOfBE(ret.value), NL)
       /\ LimbsOfBE(ret.value) = PowerByProducts(LimbsOfLE(SubSeq(arg, 1, 128)), 19)

\* 2^19 = 0x080000, from a buffer with bytes after the first 128
C5_Witness ==
  /\ Done("decrypt") /\ Len(arg) > 128
  /\ SubSeq(arg, 1, 128) = <<2>> \o Zeros(127)
  /\ ret = Return(Zeros(125) \o <<8, 0, 0>>)

\* the value of an uppercase hexadecimal digit, -1 for any other character
UpperHexValue(c) ==
  IF c >= 48 /\ c <= 57 THEN c - 48 ELSE IF c >= 65 /\ c <= 70 THEN c - 55 ELSE -1

\* the byte that the two characters at positions p, p+1 spell
HexPair(s, p) ==
  IF UpperHexValue(s[p]) < 0 \/ UpperHexValue(s[p + 1]) < 0 THEN -1
  ELSE 16 * UpperHexValue(s[p]) + UpperHexValue(s[p + 1])

\* C6: the id of a decoded record is the 15 characters XX-XXXX-XXXX-XX that
\* spell the six bytes at offsets 0x1D..0x22 in uppercase hexadecimal.
C6_IdFormat ==
  (Done("parse_user_data") /\ ret.kind = "return")
    => LET id == ret.value.id
       IN /\ Len(id) = 15
          /\ id[3] = 45 /\ id[8] = 45 /\ id[13] = 45
          /\ HexPair(id, 1) = At(arg, 29)
          /\ HexPair(id, 4) = At(arg, 30)
          /\ HexPair(id, 6) = At(arg, 31)
          /\ HexPair(id, 9) = At(arg, 32)
          /\ HexPair(id, 11) = At(arg, 33)
          /\ HexPair(id, 14) = At(arg, 34)

\* AB CD EF 01 23 45 gives "AB-CDEF-0123-45"
C6_Witness ==
  /\ Done("parse_user_data") /\ ret.kind = "return"
  /\ SubSeq(arg, 30, 35) = <<171, 205, 239, 1, 35, 69>>
  /\ ret.value.id = <<65, 66, 45, 67, 68, 69, 70, 45, 48, 49, 50, 51, 45, 52, 53>>

\* the UTF-8 encoding of one code point
EncodeCodePoint(c) ==
  IF c < 128 THEN <<c>>
  ELSE IF c < 2048 THEN <<192 + (c \div 64), 128 + (c % 64)>>
  ELSE IF c < 65536 THEN <<224 + (c \div 4096), 128 + ((c \div 64) % 64), 128 + (c % 64)>>
  ELSE <<240 + (c \div 262144), 128 + ((c \div 4096) % 64), 128 + ((c \div 64) % 64),
         128 + (c % 64)>>

RECURSIVE EncodeRange(_, _, _)
\* the UTF-8 encoding of the characters lo..hi of s
EncodeRange(s, lo, hi) ==
  IF lo > hi THEN <<>>
  ELSE IF lo = hi THEN EncodeCodePoint(s[lo])
  ELSE EncodeRange(s, lo, (lo + hi) \div 2) \o EncodeRange(s, (lo + hi) \div 2 + 1, hi)

EncodeUtf8(s) == EncodeRange(s, 1, Len(s))

\* the offset of the first zero byte at or after 0x23
TerminatorOffset(buf) ==
  CHOOSE o \in 35..(Len(buf) - 1) : At(buf, o) = 0 /\ \A p \in 35..(o - 1) : At(buf, p) # 0

\* the bytes from offset 0x23 up to the first zero byte
NameRegion(buf) == SubSeq(buf, 36, TerminatorOffset(buf))

NameCase == Done("parse_user_data") /\ Len(arg) = 128 /\ U16At(arg, 3) # 0 /\ HasTerminator(arg)

\* C7, as stated: for a 128-byte buffer with a non-zero version and a zero
\* byte at or after 0x23, the name is exactly the bytes from 0x23 up to the
\* first such zero byte.
C7_NameIsRegion ==
  NameCase => (ret.kind = "return" /\ EncodeUtf8(ret.value.name) = NameRegion(arg))

\* C7, amended: either the name is the string whose UTF-8 encoding is
\* exactly those bytes, or the bytes are not well-formed UTF-8, which takes
\* a byte of 0x80 or more among them, and decoding fails with
\* UnicodeDecodeError.
C7_NameIsRegionOrDecodeError ==
  NameCase
    => \/ ret.kind = "return" /\ EncodeUtf8(ret.value.name) = NameRegion(arg)
       \/ /\ ret = Raise("UnicodeDecodeError")
          /\ \E i \in 1..Len(NameRegion(arg)) : NameRegion(arg)[i] >= 128

\* "ACME CORP", after zero bytes before 0x23 and before non-zero bytes
\* behind the terminator
C7_Witness ==
  /\ NameCase /\ ret.kind = "return"
  /\ ret.value.name = <<65, 67, 77, 69, 32, 67, 79, 82, 80>>
  /\ At(arg, 0) = 0 /\ At(arg, 127) # 0

\* the leap years among the years 1..y
LeapYearsThrough(y) == (y \div 4) - (y \div 100) + (y \div 400)

\* days from 1970-01-01 to the first day of year y
DaysBeforeYear(y) == 365 * (y - 1970) + LeapYearsThrough(y - 1) - LeapYearsThrough(1969)

IsLeapYear(y) == y % 4 = 0 /\ (y % 100 # 0 \/ y % 400 = 0)

DaysInMonth(y, m) ==
  IF m = 2 THEN (IF IsLeapYear(y) THEN 29 ELSE 28)
  ELSE IF m \in {4, 6, 9, 11} THEN 30 ELSE 31

DaysBeforeMonth(y, m) ==
  <<0, 31, 59, 90, 120, 151, 181, 212, 243, 273, 304, 334>>[m]
    + (IF m > 2 /\ IsLeapYear(y) THEN 1 ELSE 0)

IsDateTime(dt) ==
  /\ dt.month \in 1..12
  /\ dt.day \in 1..DaysInMonth(dt.year, dt.month)
  /\ dt.hour \in 0..23 /\ dt.minute \in 0..59 /\ dt.second \in 0..59

\* the seconds from 1970-01-01T00:00:00 to dt, as limbs <<lo, hi>>
SecondsSinceEpoch(dt) ==
  LET days == DaysBeforeYear(dt.year) + DaysBeforeMonth(dt.year, dt.month) + dt.day - 1
      sod == dt.hour * 3600 + dt.minute * 60 + dt.second
      z == days * 675 + (sod \div 128)
  IN <<(z % 512) * 128 + (sod % 128), z \div 512>>

Epoch == [year |-> 1970, month |-> 1, day |-> 1, hour |-> 0, minute |-> 0, second |-> 0]

\* C8: ts1 and ts2 of a decoded record are the instants s1 and s2 seconds
\* after 1970-01-01T00:00:00, s1 and s2 the 32-bit little-endian numbers at
\* offsets 0x11 and 0x19; 0 gives the epoch itself.
C8_Timestamps ==
  (Done("parse_user_data") /\ ret.kind = "return")
    => /\ IsDateTime(ret.value.ts1) /\ IsDateTime(ret.value.ts2)
       /\ SecondsSinceEpoch(ret.value.ts1) = U32At(arg, 17)
       /\ SecondsSinceEpoch(ret.value.ts2) = U32At(arg, 25)
       /\ U32At(arg, 17) = <<0, 0>> => ret.value.ts1 = Epoch
       /\ U32At(arg, 25) = <<0, 0>> => ret.value.ts2 = Epoch

\* 2^32-1 is 2106-02-07T06:28:15, beside a zero ts2 and non-zero bytes at 0x15
C8_Witness ==
  /\ Done("parse_user_data") /\ ret.kind = "return"
  /\ U32At(arg, 17) = <<65535, 65535>> /\ U32At(arg, 25) = <<0, 0>> /\ At(arg, 21) # 0
  /\ ret.value.ts1 = [year |-> 2106, month |-> 2, day |-> 7, hour |-> 6, minute |-> 28,
                      second |-> 15]
  /\ ret.value.ts2 = Epoch

\* the first 128 bytes of buf, or all of it when it is shorter
First128(buf) == SubSeq(buf, 1, IF Len(buf) < 128 THEN Len(buf) ELSE 128)

\* C9: get_userdata gives what parse_user_data gives for decrypt(raw) when
\* is_encrypted(raw), and for the first 128 bytes of raw otherwise; a
\* plaintext buffer shorter than 128 bytes ends in the length error.
C9_Pipeline ==
  Done("get_userdata")
    => IF is_encrypted(arg)
       THEN LET dec == decrypt(arg)
            IN dec.kind = "return" /\ ret = parse_user_data(dec.value)
       ELSE /\ ret = parse_user_data(First128(arg))
            /\ Len(arg) < 128 => ret = Raise("ValueError")

\* a buffer classified as encrypted went through decrypt
C9_Witness ==
  /\ Done("get_userdata") /\ is_encrypted(arg)
  /\ Len(userdata) = 128 /\ userdata # First128(arg)

\* C10: decrypt is reached only with a buffer of at least 0x84 bytes, hence
\* of at least 128.
C10_DecryptInputLength == pc = "decrypt" => Len(userdata) >= 132

C10_Witness == pc = "decrypt" /\ Len(userdata) = 132

=============================================================================
